---- MODULE Spec2Model ----
(***************************************************************************)
(* The mood-classification service of smart-playlist-matcher-2:            *)
(*   app/app.py    the /predict handler that stages an upload in the       *)
(*                 fixed path "temp_audio";                                *)
(*   app/jsdbk.py  the module-level model load, load_audio and             *)
(*                 predict_mood;                                           *)
(*   app/smart_playlist_enhanced_audio.py  the second application, with    *)
(*                 its own startup hook.                                   *)
(* Python's None is the empty set and a present value x is {x}, so that    *)
(* optional values compare.  Python strings that the code inspects are     *)
(* sequences of one-character strings.                                     *)
(***************************************************************************)
EXTENDS Integers, Sequences, FiniteSets, TLC

VARIABLES
    app,           \* the application the server runs: "app.app" or "enhanced"
    artifact,      \* what MODEL_PATH holds on disk
    ffmpeg,        \* whether shutil.which("ffmpeg") finds the tool
    startup,       \* process start: "importing", "ready", "failed"
    startupError,  \* the exception that ended the import, or "none"
    classifier,    \* jsdbk.classifier
    MOODS,         \* jsdbk.MOODS
    model_data,    \* smart_playlist_enhanced_audio.model_data
    files,         \* the temporary paths of the working directory
    pc,            \* per worker: where its /predict handler stands
    upload,        \* per worker: the UploadFile of its request
    primary,       \* per worker: outcome of the direct librosa.load
    tmpwav,        \* per worker: load_audio's intermediate file
    signal,        \* per worker: the payload whose samples were decoded
    raised,        \* per worker: the exception that left the try body
    response       \* per worker: the HTTP answer

vars == <<app, artifact, ffmpeg, startup, startupError, classifier, MOODS,
          model_data, files, pc, upload, primary, tmpwav, signal, raised,
          response>>

loadVars == <<app, artifact, startup, startupError, classifier, MOODS, model_data>>

(***************************************************************************)
(* Optional values and strings                                             *)
(***************************************************************************)
None == {}

Some(x) == {x}

Val(o) == CHOOSE x \in o : TRUE

Range(s) == {s[i] : i \in DOMAIN s}

\* str.lower on the letters the inputs use
lower_char(c) ==
    CASE c = "M" -> "m"
      [] c = "P" -> "p"
      [] c = "W" -> "w"
      [] c = "A" -> "a"
      [] c = "V" -> "v"
      [] OTHER -> c

lower(s) == [i \in DOMAIN s |-> lower_char(s[i])]

startswith(s, prefix) ==
    /\ Len(s) >= Len(prefix)
    /\ SubSeq(s, 1, Len(prefix)) = prefix

endswith(s, suffix) ==
    /\ Len(s) >= Len(suffix)
    /\ SubSeq(s, Len(s) - Len(suffix) + 1, Len(s)) = suffix

\* Python truthiness of an optional string
truthy(o) == o # None /\ Val(o) # <<>>

audio_slash == <<"a", "u", "d", "i", "o", "/">>

octet_stream ==
    <<"a", "p", "p", "l", "i", "c", "a", "t", "i", "o", "n", "/",
      "o", "c", "t", "e", "t", "-", "s", "t", "r", "e", "a", "m">>

audio_exts ==
    { <<".", "w", "a", "v">>, <<".", "m", "p", "3">>, <<".", "o", "g", "g">>,
      <<".", "f", "l", "a", "c">>, <<".", "m", "4", "a">> }

\* the uploads a client may send
ContentTypes ==
    { None,
      Some(audio_slash \o <<"m", "p", "e", "g">>),
      Some(octet_stream),
      Some(<<"t", "e", "x", "t", "/", "p", "l", "a", "i", "n">>) }

Filenames ==
    { None,
      Some(<<"s", ".", "M", "P", "3">>),
      Some(<<"n", ".", "t", "x", "t">>),
      Some(<<"w", "a", "v">>) }

\* what the uploaded bytes are to the decoders
PayloadKinds == {"valid", "degenerate", "needs_ffmpeg", "bad_transcode", "corrupt"}

Workers == {"w1", "w2"}

(***************************************************************************)
(* The model artifact and the module-level load of app/jsdbk.py            *)
(***************************************************************************)
\* a label as pickled: a text, or an integer class written in digits
Text(t) == [ty |-> "str", s |-> t]

Number(t) == [ty |-> "int", s |-> t]

\* str(m)
str(m) == [ty |-> "str", s |-> m.s]

str_list(ms) == [i \in DOMAIN ms |-> str(ms[i])]

AllLabels ==
    << Text("calm"), Text("energetic"), Text("happy"), Text("sad"),
       Text("angry"), Text("tense"), Text("dreamy") >>

MaxClasses == 5

default_moods == SubSeq(AllLabels, 1, 4)

required_default == {Text("happy"), Text("calm"), Text("energetic"), Text("sad")}

\* class lists a fitted classifier may hold
NativeClasses ==
    {SubSeq(AllLabels, 1, n) : n \in 3..MaxClasses}
        \cup { << Number("0"), Number("1"), Number("2"), Number("3") >> }

\* label lists an artifact may carry in "classes" or "moods"
DeclaredLabels ==
    { << >>,
      << Text("happy"), Text("sad"), Text("calm"), Text("energetic") >>,
      << Text("angry"), Text("calm"), Text("happy"), Text("sad") >>,
      << Text("sad"), Text("happy"), Text("calm") >> }

\* the "model" entry: a classifier with its learned classes, which it may or
\* may not expose as the attribute classes_
Classifiers ==
    [classes_ : NativeClasses, exposes : BOOLEAN]

Bundles ==
    [kind : {"dict"},
     classes : {None} \cup {Some(l) : l \in DeclaredLabels},
     moods : {None} \cup {Some(l) : l \in DeclaredLabels},
     model : {None} \cup {Some(c) : c \in Classifiers}]

NotABundle(k) == [kind |-> k, classes |-> None, moods |-> None, model |-> None]

Artifacts ==
    Bundles \cup {NotABundle("missing"), NotABundle("corrupt"), NotABundle("object")}

\* getattr(classifier, "classes_", None)
classes_attr(c) ==
    IF c # None /\ Val(c).exposes THEN Some(Val(c).classes_) ELSE None

\* lines 42 and 47: MOODS is None or an empty list
moods_unset(m) == m = None \/ Len(Val(m)) = 0

\* lines 33-40
explicit_moods(bundle) ==
    LET m == IF bundle.classes = None THEN bundle.moods ELSE bundle.classes
    IN  IF m # None THEN Some(str_list(Val(m))) ELSE None

\* lines 42-45
native_moods(m, c) ==
    IF moods_unset(m)
    THEN LET raw == classes_attr(c)
         IN  IF raw # None THEN Some(str_list(Val(raw))) ELSE None
    ELSE m

\* lines 47-48
fallback_moods(m) == IF moods_unset(m) THEN Some(default_moods) ELSE m

resolve_moods(bundle) ==
    fallback_moods(native_moods(explicit_moods(bundle), bundle.model))

\* verify_model_moods(required=None) against a value of MOODS: TRUE when it
\* returns True, FALSE when it raises ModelLoadError
verify_model_moods(moods) ==
    LET loaded == IF moods = None THEN {} ELSE Range(Val(moods))
    IN  required_default \subseteq loaded

\* lines 26-27: open(MODEL_PATH) and pickle.load; line 29: bundle.get
import_error(a) ==
    CASE a.kind = "missing" -> "FileNotFoundError"
      [] a.kind = "corrupt" -> "UnpicklingError"
      [] a.kind = "object" -> "AttributeError"
      [] OTHER -> "none"

\* the import of app.jsdbk (which app.py runs at line 3)
LoadModule ==
    /\ app = "app.app"
    /\ startup = "importing"
    /\ startupError' = import_error(artifact)
    /\ IF import_error(artifact) = "none"
       THEN /\ startup' = "ready"
            /\ classifier' = artifact.model
            /\ MOODS' = resolve_moods(artifact)
       ELSE /\ startup' = "failed"
            /\ UNCHANGED <<classifier, MOODS>>
    /\ UNCHANGED <<app, artifact, model_data, ffmpeg, files, pc, upload, primary,
                   tmpwav, signal, raised, response>>

(***************************************************************************)
(* smart_playlist_enhanced_audio.py: load_model and startup_event          *)
(***************************************************************************)
\* lines 113-126: the global is assigned at line 121, once the pickle loaded
load_model(a) ==
    IF a.kind \in {"missing", "corrupt"} THEN None ELSE Some(a)

\* lines 129-135: whatever load_model raises is printed and dropped
startup_event ==
    /\ app = "enhanced"
    /\ startup = "importing"
    /\ startup' = "ready"
    /\ startupError' = "none"
    /\ model_data' = load_model(artifact)
    /\ UNCHANGED <<app, artifact, classifier, MOODS, ffmpeg, files, pc, upload,
                   primary, tmpwav, signal, raised, response>>

(***************************************************************************)
(* Files, exceptions and responses                                         *)
(***************************************************************************)
temp_prefix == <<"t", "e", "m", "p", "_">>

\* app.py line 17
temp_audio == temp_prefix \o <<"a", "u", "d", "i", "o">>

\* the text an f-string makes of a filename
format(fn) == IF fn = None THEN <<"N", "o", "n", "e">> ELSE Val(fn)

\* smart_playlist_enhanced_audio.py line 155
temp_filename(u) == temp_prefix \o format(u.filename)

Paths == {temp_audio} \cup {temp_prefix \o format(fn) : fn \in Filenames}

\* a path's file: whose payload it holds, what the bytes are, and the
\* requests in flight whose open() returned this very file
Absent == [owner |-> "-", data |-> "absent", holders |-> {}]

\* open(path, "wb") creates the file or truncates it
open_wb(f, w) == [owner |-> "-", data |-> "empty", holders |-> f.holders \cup {w}]

\* a removal that leaves the path in place
os_remove_skipped(fs, p) == fs

\* os.remove(path)
os_remove(fs, p) == [fs EXCEPT ![p] = Absent]

NoUpload == [content_type |-> None, filename |-> None, kind |-> "-"]

Uploads == [content_type : ContentTypes, filename : Filenames, kind : PayloadKinds]

\* what the file holds once w has written its payload from offset 0: over
\* another upload's bytes, its own bytes or a mix of the two
written(w, f) ==
    LET mine == [f EXCEPT !.owner = w, !.data = upload[w].kind]
    IN  IF f.data = "empty"
        THEN {mine}
        ELSE {mine, [f EXCEPT !.owner = "-", !.data = "mixed"]}

NoSignal == [owner |-> "-", data |-> "none"]

samples(f) == [owner |-> f.owner, data |-> f.data]

NoTmp == [state |-> "none", owner |-> "-", data |-> "none"]

NoExc == [type |-> "none", cause |-> "none", msg |-> "none"]

Exc(t, c, m) == [type |-> t, cause |-> c, msg |-> m]

NoResult == [mood |-> Text("-"), probabilities |-> << >>, labels |-> << >>, n_probs |-> 0]

NoFeatures == << >>

NoResponse == [status |-> 0, detail |-> "none", result |-> NoResult, source |-> "-",
               features |-> NoFeatures]

Answer(st, d) == [status |-> st, detail |-> d, result |-> NoResult, source |-> "-",
                  features |-> NoFeatures]

\* an exception that leaves a handler: the server answers 500 by itself
Unhandled == Answer(500, "Internal Server Error")

\* the path a worker's request stages its upload in
temp_path(w) == IF app = "app.app" THEN temp_audio ELSE temp_filename(upload[w])

\* a request is over: its handles are closed
forget(fs, w) == [p \in DOMAIN fs |-> [fs[p] EXCEPT !.holders = @ \ {w}]]

\* the answer is sent and the worker takes the next request
Respond(w) ==
    /\ pc[w] = "done"
    /\ pc' = [pc EXCEPT ![w] = "idle"]
    /\ files' = forget(files, w)
    /\ upload' = [upload EXCEPT ![w] = NoUpload]
    /\ primary' = [primary EXCEPT ![w] = "none"]
    /\ tmpwav' = [tmpwav EXCEPT ![w] = NoTmp]
    /\ signal' = [signal EXCEPT ![w] = NoSignal]
    /\ raised' = [raised EXCEPT ![w] = NoExc]
    /\ response' = [response EXCEPT ![w] = NoResponse]
    /\ UNCHANGED <<loadVars, ffmpeg>>

(***************************************************************************)
(* app.py: predict, up to the call of predict_mood                         *)
(***************************************************************************)
\* lines 35-44: what the except clauses make of an exception
handle(e) ==
    CASE e.type = "AudioDecodeError" -> Answer(415, e.msg)
      [] e.type = "HTTPException" -> Answer(400, e.msg)
      [] OTHER -> Answer(500, e.msg)

is_audio_mime(u) ==
    truthy(u.content_type) /\ startswith(Val(u.content_type), audio_slash)

is_octet(u) == u.content_type = Some(octet_stream)

has_audio_ext(u) == \E ext \in audio_exts : endswith(lower(Val(u.filename)), ext)

\* line 27
accepted(u) == is_audio_mime(u) \/ is_octet(u) \/ has_audio_ext(u)

\* lines 21-28: None for an upload that passes, else the exception raised
validate(u) ==
    IF u.filename = None
    THEN Some(Exc("AttributeError", "none", "'NoneType' object has no attribute 'lower'"))
    ELSE IF ~accepted(u)
         THEN Some(Exc("HTTPException", "none", "Unsupported audio format"))
         ELSE None

Receive(w, ups) ==
    /\ app = "app.app"
    /\ startup = "ready"
    /\ pc[w] = "idle"
    /\ \E u \in ups : upload' = [upload EXCEPT ![w] = u]
    /\ pc' = [pc EXCEPT ![w] = "validate"]
    /\ UNCHANGED <<loadVars, ffmpeg, files, primary, tmpwav, signal, raised,
                   response>>

Validate(w) ==
    /\ pc[w] = "validate"
    /\ LET e == validate(upload[w])
       IN  IF e = None
           THEN /\ pc' = [pc EXCEPT ![w] = "open"]
                /\ UNCHANGED <<raised, response>>
           ELSE /\ pc' = [pc EXCEPT ![w] = "finally"]
                /\ raised' = [raised EXCEPT ![w] = Val(e)]
                /\ response' = [response EXCEPT ![w] = handle(Val(e))]
    /\ UNCHANGED <<loadVars, ffmpeg, files, upload, primary, tmpwav, signal>>

\* line 30
Open(w) ==
    /\ pc[w] = "open"
    /\ files' = [files EXCEPT ![temp_audio] = open_wb(@, w)]
    /\ pc' = [pc EXCEPT ![w] = "copy"]
    /\ UNCHANGED <<loadVars, ffmpeg, upload, primary, tmpwav, signal, raised,
                   response>>

\* line 31 and the close of the with block; a handle whose file was removed
\* writes to a file no path names
Copy(w) ==
    /\ pc[w] = "copy"
    /\ IF w \in files[temp_audio].holders
       THEN \E f \in written(w, files[temp_audio]) :
                files' = [files EXCEPT ![temp_audio] = f]
       ELSE UNCHANGED files
    /\ pc' = [pc EXCEPT ![w] = "load"]
    /\ UNCHANGED <<loadVars, ffmpeg, upload, primary, tmpwav, signal, raised,
                   response>>

(***************************************************************************)
(* jsdbk.py: load_audio                                                    *)
(***************************************************************************)
\* librosa.load(audio_path) at line 76, by what the path holds when it reads
primary_outcomes(f) ==
    CASE f.data \in {"valid", "degenerate"} -> {"ok"}
      [] f.data = "mixed" -> {"ok", "failed"}
      [] OTHER -> {"failed"}

\* ffmpeg at lines 86-90, by what the path holds when it reads
transcode_outcomes(f) ==
    CASE f.data \in {"valid", "degenerate", "needs_ffmpeg", "bad_transcode"} -> {"ok"}
      [] f.data = "mixed" -> {"ok", "failed"}
      [] OTHER -> {"failed"}

\* the intermediate file ffmpeg leaves
transcoded(f) ==
    [state |-> "written", owner |-> f.owner,
     data |-> IF f.data = "bad_transcode" THEN "undecodable"
              ELSE IF f.data = "needs_ffmpeg" THEN "valid"
              ELSE f.data]

\* lines 83-84: tempfile.mkstemp
mkstemp == [state |-> "created", owner |-> "-", data |-> "empty"]

\* a cleanup that runs on the success path only
remove_tmpwav_on_success(t) ==
    IF t.state = "written" /\ t.data # "undecodable"
    THEN [state |-> "removed", owner |-> "-", data |-> "none"]
    ELSE t

\* lines 96-98: the finally of the fallback
remove_tmpwav(t) ==
    IF t.state \in {"created", "written"}
    THEN [state |-> "removed", owner |-> "-", data |-> "none"]
    ELSE t

\* the direct load's own error, left unwrapped
no_backend_unwrapped ==
    Exc("NoBackendError", "none", "no suitable backend found")

\* line 100
no_backend ==
    Exc("AudioDecodeError", "primary decode error",
        "Audio decode failed: no suitable backend found (install ffmpeg)")

\* line 95
after_ffmpeg(cause) ==
    Exc("AudioDecodeError", cause, "Audio decode failed after ffmpeg conversion")

\* line 82: the fallback is taken when the tool is found
use_fallback(found) == found

\* lines 74-84 and 99-100: the direct load, and on its failure the choice of
\* the fallback
PrimaryDecode(w) ==
    /\ pc[w] = "load"
    /\ \E o \in primary_outcomes(files[temp_audio]) :
         IF o = "ok"
         THEN /\ primary' = [primary EXCEPT ![w] = "ok"]
              /\ signal' = [signal EXCEPT ![w] = samples(files[temp_audio])]
              /\ pc' = [pc EXCEPT ![w] = "infer"]
              /\ UNCHANGED <<tmpwav, raised, response>>
         ELSE /\ primary' = [primary EXCEPT ![w] = "failed"]
              /\ IF use_fallback(ffmpeg)
                 THEN /\ tmpwav' = [tmpwav EXCEPT ![w] = mkstemp]
                      /\ pc' = [pc EXCEPT ![w] = "transcode"]
                      /\ UNCHANGED <<raised, response>>
                 ELSE /\ raised' = [raised EXCEPT ![w] = no_backend]
                      /\ response' = [response EXCEPT ![w] = handle(no_backend)]
                      /\ pc' = [pc EXCEPT ![w] = "finally"]
                      /\ UNCHANGED tmpwav
              /\ UNCHANGED signal
    /\ UNCHANGED <<loadVars, ffmpeg, files, upload>>

\* lines 86-90, and lines 94-98 when ffmpeg exits non-zero
Transcode(w) ==
    /\ pc[w] = "transcode"
    /\ \E o \in transcode_outcomes(files[temp_audio]) :
         IF o = "ok"
         THEN /\ tmpwav' = [tmpwav EXCEPT ![w] = transcoded(files[temp_audio])]
              /\ pc' = [pc EXCEPT ![w] = "retry"]
              /\ UNCHANGED <<raised, response>>
         ELSE /\ tmpwav' = [tmpwav EXCEPT ![w] = remove_tmpwav(tmpwav[w])]
              /\ raised' = [raised EXCEPT ![w] = after_ffmpeg("CalledProcessError")]
              /\ response' = [response EXCEPT ![w] =
                                handle(after_ffmpeg("CalledProcessError"))]
              /\ pc' = [pc EXCEPT ![w] = "finally"]
    /\ UNCHANGED <<loadVars, ffmpeg, files, upload, primary, signal>>

\* lines 91-98: the retry against the intermediate file, then its removal
RetryDecode(w) ==
    /\ pc[w] = "retry"
    /\ tmpwav' = [tmpwav EXCEPT ![w] = remove_tmpwav(tmpwav[w])]
    /\ IF tmpwav[w].data = "undecodable"
       THEN /\ raised' = [raised EXCEPT ![w] = after_ffmpeg("retry decode error")]
            /\ response' = [response EXCEPT ![w] =
                              handle(after_ffmpeg("retry decode error"))]
            /\ pc' = [pc EXCEPT ![w] = "finally"]
            /\ UNCHANGED signal
       ELSE /\ signal' = [signal EXCEPT ![w] = samples(tmpwav[w])]
            /\ pc' = [pc EXCEPT ![w] = "infer"]
            /\ UNCHANGED <<raised, response>>
    /\ UNCHANGED <<loadVars, ffmpeg, files, upload, primary>>

(***************************************************************************)
(* The feature vectors.  A slot is the expression the code evaluates for   *)
(* it: a statistic of one of the arrays librosa derives from the signal.   *)
(* An array is named by the librosa call that made it and, for a matrix    *)
(* indexed by the code, by the row taken.                                  *)
(***************************************************************************)
array(name) == [name |-> name, row |-> None]

row(name, i) == [name |-> name, row |-> Some(i)]

float(a) == [fn |-> "float", of |-> a]

np_mean(a) == [fn |-> "mean", of |-> a]

np_std(a) == [fn |-> "std", of |-> a]

\* float(len(a)) if len(a) > 0 else 0.0
float_len(a) == [fn |-> "len", of |-> a]

\* float(np.std(a)) if len(a) > 1 else 0.0
np_std_if_many(a) == [fn |-> "std if len > 1 else 0.0", of |-> a]

n_mfcc == 13

\* jsdbk.py lines 128-159
extract_features_from_audio ==
    << float(array("beat_track.tempo")),
       np_mean(array("rms")),
       np_mean(array("spectral_centroid")),
       np_mean(array("zero_crossing_rate")),
       np_mean(array("spectral_rolloff")),
       np_mean(row("mfcc", 1)),
       np_mean(row("mfcc", 2)),
       np_mean(array("chroma_stft")),
       np_mean(array("onset_strength")),
       np_mean(array("spectral_contrast")),
       np_std(array("onset_strength")),
       np_std(array("rms")),
       np_std(array("spectral_rolloff")),
       np_std(array("chroma_stft")),
       np_std(array("onset_strength")) >>

\* smart_playlist_enhanced_audio.py lines 46-100
extract_anti_overfitting_features ==
    << float(array("beat_track.tempo")),
       np_mean(array("rms")),
       np_mean(array("spectral_centroid")),
       np_mean(array("zero_crossing_rate")),
       np_mean(array("spectral_rolloff")),
       np_mean(row("mfcc", 0)),
       np_mean(row("mfcc", 1)),
       np_mean(array("chroma_stft")),
       float_len(array("onset_detect")),
       np_mean(array("spectral_contrast")),
       np_std_if_many(array("beat_track.beats")),
       np_std(array("rms")),
       np_std(array("spectral_rolloff")),
       np_std(array("chroma_stft")),
       np_std_if_many(array("beat_track.beats")) >>

(***************************************************************************)
(* jsdbk.py: predict_mood after the load                                   *)
(***************************************************************************)
\* lines 222-230: the labels zipped with the probabilities
aligned_labels(moods, clf, n_probs) ==
    IF n_probs # Len(moods)
    THEN LET raw == classes_attr(clf)
         IN  IF raw # None THEN str_list(Val(raw)) ELSE moods
    ELSE moods

\* dict(zip(labels, probs)): each key with the index of the probability it
\* keeps (the last one, when a label repeats)
zip_dict(labels, n_probs) ==
    LET m == IF Len(labels) < n_probs THEN Len(labels) ELSE n_probs
    IN  [k \in {labels[i] : i \in 1..m} |->
            CHOOSE i \in 1..m :
                /\ labels[i] = k
                /\ \A j \in 1..m : labels[j] = k => j <= i]

\* lines 193-194 and 221-249 for a classifier that picked its class i
assemble(moods, clf, i) ==
    LET n_probs == Len(Val(clf).classes_)
        labels == aligned_labels(moods, clf, n_probs)
    IN  [mood |-> str(Val(clf).classes_[i]),
         probabilities |-> zip_dict(labels, n_probs),
         labels |-> labels,
         n_probs |-> n_probs]

\* lines 187-194: the exception of the stages between load and assembly
pipeline_error(sig, clf) ==
    IF sig.data = "degenerate"
    THEN Some(Exc("ParameterError", "none", "feature extraction failed"))
    ELSE IF clf = None
         THEN Some(Exc("AttributeError", "none",
                       "'NoneType' object has no attribute 'predict'"))
         ELSE None

Infer(w) ==
    /\ pc[w] = "infer"
    /\ LET e == pipeline_error(signal[w], classifier)
       IN  IF e # None
           THEN /\ raised' = [raised EXCEPT ![w] = Val(e)]
                /\ response' = [response EXCEPT ![w] = handle(Val(e))]
           ELSE /\ \E i \in 1..Len(Val(classifier).classes_) :
                     response' = [response EXCEPT ![w] =
                         [status |-> 200, detail |-> "none",
                          result |-> assemble(Val(MOODS), classifier, i),
                          source |-> signal[w].owner,
                          features |-> extract_features_from_audio]]
                /\ UNCHANGED raised
    /\ pc' = [pc EXCEPT ![w] = "finally"]
    /\ UNCHANGED <<loadVars, ffmpeg, files, upload, primary, tmpwav, signal>>

(***************************************************************************)
(* app.py: the finally of predict                                          *)
(***************************************************************************)
\* line 47
FinallyExists(w) ==
    /\ pc[w] = "finally"
    /\ pc' = [pc EXCEPT ![w] =
                IF files[temp_audio] # Absent THEN "remove" ELSE "done"]
    /\ UNCHANGED <<loadVars, ffmpeg, files, upload, primary, tmpwav, signal,
                   raised, response>>

\* line 48; FileNotFoundError leaves the handler when the path is gone
FinallyRemove(w) ==
    /\ pc[w] = "remove"
    /\ IF files[temp_audio] # Absent
       THEN /\ files' = os_remove(files, temp_audio)
            /\ UNCHANGED response
       ELSE /\ response' = [response EXCEPT ![w] = Unhandled]
            /\ UNCHANGED files
    /\ pc' = [pc EXCEPT ![w] = "done"]
    /\ UNCHANGED <<loadVars, ffmpeg, upload, primary, tmpwav, signal, raised>>

predict(w, ups) ==
    \/ Receive(w, ups)
    \/ Validate(w)
    \/ Open(w)
    \/ Copy(w)
    \/ PrimaryDecode(w)
    \/ Transcode(w)
    \/ RetryDecode(w)
    \/ Infer(w)
    \/ FinallyExists(w)
    \/ FinallyRemove(w)

(***************************************************************************)
(* smart_playlist_enhanced_audio.py: predict_mood                          *)
(***************************************************************************)
Request(w, ups) ==
    /\ app = "enhanced"
    /\ startup = "ready"
    /\ pc[w] = "idle"
    /\ \E u \in ups : upload' = [upload EXCEPT ![w] = u]
    /\ pc' = [pc EXCEPT ![w] = "stage"]
    /\ UNCHANGED <<loadVars, ffmpeg, files, primary, tmpwav, signal, raised,
                   response>>

\* lines 155-157: the file is opened, then the handler awaits file.read()
Stage(w) ==
    /\ pc[w] = "stage"
    /\ files' = [files EXCEPT ![temp_filename(upload[w])] = open_wb(@, w)]
    /\ pc' = [pc EXCEPT ![w] = "read"]
    /\ UNCHANGED <<loadVars, ffmpeg, upload, primary, tmpwav, signal, raised,
                   response>>

\* extract_anti_overfitting_features (lines 37-104): "failed" is its None
extract_outcomes(f) ==
    CASE f.data = "valid" -> {"ok"}
      [] f.data = "mixed" -> {"ok", "failed"}
      [] OTHER -> {"failed"}

\* the length of predict_proba's row
n_outputs(md) ==
    IF md # None /\ Val(md).kind = "dict" /\ Val(md).model # None
    THEN Len(Val(Val(md).model).classes_)
    ELSE 1

\* lines 169-180: the exception of scaling, inference and the two indexings
\* by class, for a classifier whose argmax is i
inference_error(md, i) ==
    IF md = None \/ Val(md).kind # "dict"
    THEN Some(Exc("TypeError", "none", "Prediction failed: not subscriptable"))
    ELSE IF Val(md).model = None
    THEN Some(Exc("AttributeError", "none", "Prediction failed: no predict_proba"))
    ELSE IF Val(md).classes = None
    THEN Some(Exc("TypeError", "none", "Prediction failed: not subscriptable"))
    ELSE IF i > Len(Val(Val(md).classes)) \/ Len(Val(Val(md).classes)) > n_outputs(md)
    THEN Some(Exc("IndexError", "none", "Prediction failed: index out of range"))
    ELSE None

\* lines 172-180 and 189-213
mood_response(md, i, sig) ==
    [status |-> 200, detail |-> "none", source |-> sig.owner,
     features |-> extract_anti_overfitting_features,
     result |-> [mood |-> Val(Val(md).classes)[i],
                 probabilities |-> zip_dict(Val(Val(md).classes), n_outputs(md)),
                 labels |-> Val(Val(md).classes),
                 n_probs |-> n_outputs(md)]]

\* lines 215-216, 222-225 and 228-231: every way out removes the path
cleanup(fs, p) == IF fs[p] # Absent THEN os_remove(fs, p) ELSE fs

\* lines 157-234, which run without a further await: the write, the feature
\* extraction, the inference and the cleanup
Process(w) ==
    /\ pc[w] = "read"
    /\ LET p == temp_filename(upload[w])
       IN  \E f \in (IF w \in files[p].holders THEN written(w, files[p]) ELSE {files[p]}) :
           \E o \in extract_outcomes(f) :
           \E i \in 1..n_outputs(model_data) :
             /\ files' = cleanup([files EXCEPT ![p] = f], p)
             /\ IF o = "failed"
                THEN /\ raised' = [raised EXCEPT ![w] =
                           Exc("HTTPException", "none", "Feature extraction failed")]
                     /\ response' = [response EXCEPT ![w] =
                           Answer(400, "Feature extraction failed")]
                     /\ UNCHANGED signal
                ELSE /\ signal' = [signal EXCEPT ![w] = samples(f)]
                     /\ LET e == inference_error(model_data, i)
                        IN  IF e # None
                            THEN /\ raised' = [raised EXCEPT ![w] = Val(e)]
                                 /\ response' = [response EXCEPT ![w] =
                                       Answer(500, Val(e).msg)]
                            ELSE /\ response' = [response EXCEPT ![w] =
                                       mood_response(model_data, i, samples(f))]
                                 /\ UNCHANGED raised
    /\ pc' = [pc EXCEPT ![w] = "done"]
    /\ UNCHANGED <<loadVars, ffmpeg, upload, primary, tmpwav>>

enhanced_predict_mood(w, ups) ==
    \/ Request(w, ups)
    \/ Stage(w)
    \/ Process(w)

(***************************************************************************)
(* Specifications                                                          *)
(***************************************************************************)
Apps == {"app.app", "enhanced"}

\* the artifacts of the deployments whose request handling is explored
DeployedArtifacts ==
    { [kind |-> "dict", classes |-> Some(default_moods), moods |-> None,
       model |-> Some([classes_ |-> default_moods, exposes |-> TRUE])],
      [kind |-> "dict", classes |-> None, moods |-> None, model |-> None],
      NotABundle("missing") }

\* one upload for each way through the handlers
DeployedUploads ==
    { u \in Uploads :
        \/ /\ u.content_type = Some(audio_slash \o <<"m", "p", "e", "g">>)
           /\ u.filename = Some(<<"s", ".", "M", "P", "3">>)
        \/ /\ u.content_type = Some(<<"t", "e", "x", "t", "/", "p", "l", "a", "i", "n">>)
           /\ u.filename = Some(<<"n", ".", "t", "x", "t">>)
           /\ u.kind = "valid"
        \/ /\ u.content_type = None
           /\ u.filename = None
           /\ u.kind = "valid" }

InitWith(arts) ==
    /\ app \in Apps
    /\ artifact \in arts
    /\ ffmpeg \in BOOLEAN
    /\ startup = "importing"
    /\ startupError = "none"
    /\ classifier = None
    /\ MOODS = None
    /\ model_data = None
    /\ files = [p \in Paths |-> Absent]
    /\ pc = [w \in Workers |-> "idle"]
    /\ upload = [w \in Workers |-> NoUpload]
    /\ primary = [w \in Workers |-> "none"]
    /\ tmpwav = [w \in Workers |-> NoTmp]
    /\ signal = [w \in Workers |-> NoSignal]
    /\ raised = [w \in Workers |-> NoExc]
    /\ response = [w \in Workers |-> NoResponse]

\* two workers serving requests side by side
Init == InitWith(DeployedArtifacts)

Serve(w) ==
    \/ predict(w, DeployedUploads)
    \/ enhanced_predict_mood(w, DeployedUploads)
    \/ Respond(w)

Next == LoadModule \/ startup_event \/ \E w \in Workers : Serve(w)

Spec == Init /\ [][Next]_vars

\* every artifact and every upload, one request at a time
InitModel == InitWith(Artifacts)

ServeAny(w) ==
    \/ predict(w, Uploads)
    \/ enhanced_predict_mood(w, Uploads)
    \/ Respond(w)

NextModel == LoadModule \/ startup_event \/ ServeAny("w1")

SpecModel == InitModel /\ [][NextModel]_vars

(***************************************************************************)
(* Properties                                                              *)
(***************************************************************************)
\* what a request needs from the process to be answered 200
serviceable ==
    IF app = "app.app" THEN classifier # None ELSE inference_error(model_data, 1) = None

\* an upload the handler lets through whose bytes decode and analyse
valid_upload(u) == u.kind = "valid" /\ (app = "app.app" => validate(u) = None)

\* C1: when every request in flight carries a valid audio file, a finished
\* request was answered 200 with the prediction computed from its own file,
\* whatever the other handler did meanwhile.
C1_OwnPrediction ==
    \A w \in Workers :
        ( /\ serviceable
          /\ pc[w] = "done"
          /\ \A v \in Workers : upload[v] = NoUpload \/ valid_upload(upload[v]) )
        => /\ response[w].status = 200
           /\ response[w].source = w

\* C2: once a request has finished, whatever its outcome, no path names the
\* file that its open() staged the upload in.
C2_TempFileRemoved ==
    \A w \in Workers :
        pc[w] = "done" => \A p \in Paths : w \notin files[p].holders

\* a request that staged its upload and ended in a decode failure
C2_Witness ==
    \E w \in Workers :
        /\ pc[w] = "done"
        /\ primary[w] = "failed"
        /\ response[w].status = 415

\* load_audio has returned or raised
left_load_audio(w) ==
    primary[w] # "none" /\ pc[w] \notin {"load", "transcode", "retry"}

\* C3: load_audio ends with a decoded signal or with AudioDecodeError and
\* nothing else; the error carries the direct load's error when ffmpeg is
\* not found, and the transcode's or the retry's error otherwise; the
\* fallback file exists only after the direct load has failed.
C3_DecodeOrAudioDecodeError ==
    \A w \in Workers :
        /\ tmpwav[w] # NoTmp => primary[w] = "failed"
        /\ left_load_audio(w) =>
             \/ signal[w] # NoSignal /\ raised[w].type # "AudioDecodeError"
             \/ /\ signal[w] = NoSignal
                /\ raised[w].type = "AudioDecodeError"
                /\ IF ffmpeg
                   THEN /\ tmpwav[w].state = "removed"
                        /\ raised[w].cause \in {"CalledProcessError", "retry decode error"}
                   ELSE /\ tmpwav[w] = NoTmp
                        /\ raised[w].cause = "primary decode error"

\* the direct load failed with no ffmpeg on the host
C3_Witness ==
    \E w \in Workers :
        /\ left_load_audio(w)
        /\ ~ffmpeg
        /\ raised[w].type = "AudioDecodeError"

\* C4: outside the fallback itself, the intermediate file that load_audio
\* created does not exist: it is gone when load_audio returns or raises.
C4_IntermediateFileRemoved ==
    \A w \in Workers :
        pc[w] \notin {"transcode", "retry"} => tmpwav[w].state \in {"none", "removed"}

\* the retry decode failed after the intermediate file was written
C4_Witness ==
    \E w \in Workers :
        /\ tmpwav[w].state = "removed"
        /\ raised[w].cause = "retry decode error"

\* the first non-empty of: "classes", "moods", the classifier's class list,
\* the four default labels
first_non_empty(b) ==
    IF ~moods_unset(b.classes) THEN str_list(Val(b.classes))
    ELSE IF ~moods_unset(b.moods) THEN str_list(Val(b.moods))
    ELSE IF ~moods_unset(classes_attr(b.model)) THEN str_list(Val(classes_attr(b.model)))
    ELSE default_moods

\* C5: after the load, MOODS is the first non-empty source in the order
\* "classes", "moods", classifier class list, default labels; so "moods" is
\* used whenever "classes" is absent or empty.
C5_FirstNonEmptyWins ==
    (app = "app.app" /\ startup = "ready") => MOODS = Some(first_non_empty(artifact))

\* C6: the load completes, and requests are served, only with a label set
\* that contains happy, calm, energetic and sad.
C6_LoadRequiresCanonicalMoods ==
    (app = "app.app" /\ startup = "ready") => verify_model_moods(MOODS)

\* C7: with the artifact missing or malformed, start-up ends in failure with
\* ModelLoadError, and no request is ever taken.
C7_MissingArtifactFailsStartup ==
    (artifact.kind # "dict" /\ startup # "importing")
        => /\ startup = "failed"
           /\ startupError = "ModelLoadError"
           /\ \A w \in Workers : pc[w] = "idle"

\* C8: in every 200 answer of predict_mood the keys of the probabilities map
\* are the labels used, there are as many labels as probabilities, and every
\* probability is the value of some key.
C8_ProbabilitiesMatchLabels ==
    \A w \in Workers :
        (app = "app.app" /\ response[w].status = 200) =>
            LET r == response[w].result
            IN  /\ DOMAIN r.probabilities = Range(r.labels)
                /\ Len(r.labels) = r.n_probs
                /\ \A i \in 1..r.n_probs :
                       \E k \in DOMAIN r.probabilities : r.probabilities[k] = i

\* C9: an accepted upload is answered 415 with the decode message exactly
\* when the pipeline raised AudioDecodeError, 500 with the message for every
\* other exception, and 200, with a result, only when nothing was raised;
\* an answer other than 200 carries no result.
C9_StatusFollowsFailure ==
    \A w \in Workers :
        (app = "app.app" /\ pc[w] = "done" /\ validate(upload[w]) = None) =>
            /\ response[w].status = 415 <=> raised[w].type = "AudioDecodeError"
            /\ raised[w].type # "none" => response[w].detail = raised[w].msg
            /\ raised[w].type \notin {"none", "AudioDecodeError"} => response[w].status = 500
            /\ response[w].status = 200 <=> raised[w] = NoExc
            /\ response[w].status = 200 => signal[w] # NoSignal
            /\ response[w].status = 200 <=> response[w].result.n_probs > 0

\* the acceptance rule as stated: a content type starting with audio/, the
\* octet-stream type, or a filename ending in an audio extension
stated_accept(u) ==
    \/ u.content_type # None /\ startswith(Val(u.content_type), audio_slash)
    \/ u.content_type = Some(octet_stream)
    \/ u.filename # None /\ \E ext \in audio_exts : endswith(lower(Val(u.filename)), ext)

\* C10: an upload is processed exactly when the stated rule accepts it; any
\* other upload is answered 400 'Unsupported audio format' with nothing
\* staged and no decode attempted.
C10_AcceptedIffAudio ==
    \A w \in Workers :
        (app = "app.app" /\ pc[w] = "done") =>
            IF stated_accept(upload[w])
            THEN primary[w] # "none"
            ELSE /\ primary[w] = "none"
                 /\ response[w].status = 400
                 /\ response[w].detail = "Unsupported audio format"

\* the fifteen slots as stated: the statistic and the quantity it is taken of
stated_slots ==
    << <<"float", "beat_track.tempo">>,
       <<"mean", "rms">>,
       <<"mean", "spectral_centroid">>,
       <<"mean", "zero_crossing_rate">>,
       <<"mean", "spectral_rolloff">>,
       <<"mean", "mfcc">>,
       <<"mean", "mfcc">>,
       <<"mean", "chroma_stft">>,
       <<"mean", "onset_strength">>,
       <<"mean", "spectral_contrast">>,
       <<"std", "onset_strength">>,
       <<"std", "rms">>,
       <<"std", "spectral_rolloff">>,
       <<"std", "chroma_stft">>,
       <<"std", "onset_strength">> >>

\* a vector that is the stated one: fifteen slots in the stated order, the
\* cepstral slots from rows 1 and 2, slot 11 the same value as slot 15
as_stated(v) ==
    /\ Len(v) = Len(stated_slots)
    /\ \A i \in 1..Len(stated_slots) :
          /\ v[i].fn = stated_slots[i][1]
          /\ v[i].of.name = stated_slots[i][2]
          /\ v[i].of.row = (CASE i = 6 -> Some(1) [] i = 7 -> Some(2) [] OTHER -> None)
    /\ \A i \in {6, 7} : \A r \in v[i].of.row : r \in 1..(n_mfcc - 1)
    /\ v[11] = v[15]

\* C11: whenever a request was answered with a prediction, the vector that
\* was fed to the classifier has exactly 15 slots in the stated order, its
\* cepstral slots come from coefficients 1 and 2 and never 0, and its 11th
\* slot is the onset-strength deviation, equal to the 15th; this holds for
\* the extraction routine of either application.
C11_FeatureVectorAsStated ==
    \A w \in Workers :
        response[w].status = 200 => as_stated(response[w].features)

\* the same for the routine of jsdbk.py alone
jsdbk_vector_as_stated ==
    \A w \in Workers :
        (app = "app.app" /\ response[w].status = 200) =>
            as_stated(response[w].features)

\* C12: every prediction that jsdbk.predict_mood returns names a mood that
\* is a key of its probabilities map, whatever bundle was loaded, also one
\* whose declared labels differ from the classifier's classes while being
\* as many.
C12_MoodIsAProbabilityKey ==
    \A w \in Workers :
        (app = "app.app" /\ response[w].status = 200) =>
            response[w].result.mood \in DOMAIN response[w].result.probabilities

====
